---- MODULE Spec2Model ----
(***************************************************************************)
(* The AmigoChat ledger (contracts/AmigoChat.sol) as a state machine.      *)
(* Every external write function is one action; a transaction either runs  *)
(* to completion or reverts (a failed require undoes the whole call).      *)
(* Strings are TLA+ strings; bytes(s).length is Len(s).  Addresses are     *)
(* small integers ordered as the EVM orders addresses; 0 is address(0).    *)
(* keccak256(abi.encodePacked(x, y)) is the pair <<x, y>> (collision-free).*)
(***************************************************************************)
EXTENDS Integers, Sequences, FiniteSets, TLC

VARIABLES users, usernameToAddress, conversations, userConversations,
          generalChatMessages, registeredUsers, totalUsers, totalMessages,
          now, lastCall,
          owner, priceFeedBTCUSD, priceFeedETHUSD, priceFeedLINKUSD,
          oracle, lastRead,
          availability, route, chat

ledger == <<users, usernameToAddress, conversations, userConversations,
            generalChatMessages, registeredUsers, totalUsers, totalMessages>>

(* Owner and price-feed addresses of the contract, the answers the external
   oracles currently give, and the result of the latest view call. *)
admin == <<owner, priceFeedBTCUSD, priceFeedETHUSD, priceFeedLINKUSD>>

(* State of the React front end: the username-availability hook, the
   router with ProtectedRoute and RegisterPage, and ChatPage. *)
frontend == <<availability, route, chat>>

env == <<owner, priceFeedBTCUSD, priceFeedETHUSD, priceFeedLINKUSD, oracle, lastRead,
         availability, route, chat>>

vars == <<users, usernameToAddress, conversations, userConversations,
          generalChatMessages, registeredUsers, totalUsers, totalMessages,
          now, lastCall,
          owner, priceFeedBTCUSD, priceFeedETHUSD, priceFeedLINKUSD,
          oracle, lastRead,
          availability, route, chat>>

-----------------------------------------------------------------------------
(* Bounds of the exploration *)

MaxPosts == 2
MaxTime == 1

(* Program constants *)

MaxUsernameLength == 50
MaxMessageLength == 1000

-----------------------------------------------------------------------------
(* Inputs *)

RECURSIVE Rep(_, _)
Rep(s, n) ==
    IF n = 0 THEN ""
    ELSE IF n = 1 THEN s
    ELSE Rep(s, n \div 2) \o Rep(s, n - (n \div 2))

ZeroAddress == 0
Callers == {1, 2}
Addresses == Callers \cup {ZeroAddress}

U50 == Rep("u", MaxUsernameLength)
U51 == Rep("u", MaxUsernameLength + 1)
Usernames == {"", "alice", "bob", U50, U51}

(* The names and contents of the walk-through scenario, and two names shorter
   than three bytes. *)
ScenarioUsernames == {"alice", "bob", "a", "al"}
ScenarioContents == {"hi", "hello"}

(* Names typed into the registration form: too short, ordinary, and two that
   begin with "admin" in either case. *)
AvailabilityUsernames == {"al", "alice", "bob", "admin1", "ADMIN2"}
AllUsernames == Usernames \cup ScenarioUsernames \cup AvailabilityUsernames

Pics == {"ref1", "ref2"}

M1000 == Rep("m", MaxMessageLength)
M1001 == Rep("m", MaxMessageLength + 1)
Contents == {"", "h", M1000, M1001}

ConversationKeys == Addresses \X Addresses

(* Addresses of the three AggregatorV3Interface contracts, and what a
   latestRoundData() call on one of them gives: a signed answer, or a revert. *)
FeedBTC == 10
FeedETH == 11
FeedLINK == 12
Feeds == {FeedBTC, FeedETH, FeedLINK}
Answers == {-1, 0, 7}
RoundData(answer, updatedAt) ==
    [reverts |-> FALSE, answer |-> answer, updatedAt |-> updatedAt]
Reverts == [reverts |-> TRUE, answer |-> 0, updatedAt |-> 0]
OracleOutcomes ==
    {RoundData(v, t) : v \in Answers, t \in 0..MaxTime} \cup {Reverts}

-----------------------------------------------------------------------------
(* Storage defaults and the constructor *)

EmptyProfile ==
    [username |-> "", ipfsProfilePicHash |-> "", isRegistered |-> FALSE,
     registrationTimestamp |-> 0, totalMessagesSent |-> 0]

Call(op, sender, username, pic, content, receiver, ok, err, events) ==
    [op |-> op, sender |-> sender, username |-> username, pic |-> pic,
     content |-> content, receiver |-> receiver, ok |-> ok, err |-> err,
     events |-> events]

NoCall == Call("none", ZeroAddress, "", "", "", ZeroAddress, TRUE, "", <<>>)

NoRead == [op |-> "none", ok |-> TRUE, btcPrice |-> 0, ethPrice |-> 0, linkPrice |-> 0]

Deployer == 1

InitLedger ==
    /\ users = [a \in Addresses |-> EmptyProfile]
    /\ usernameToAddress = [u \in AllUsernames |-> ZeroAddress]
    /\ conversations = [k \in ConversationKeys |-> <<>>]
    /\ userConversations = [a \in Addresses |-> <<>>]
    /\ generalChatMessages = <<>>
    /\ registeredUsers = <<>>
    /\ totalUsers = 0
    /\ totalMessages = 0
    /\ now = 0
    /\ lastCall = NoCall

InitContract ==
    /\ InitLedger
    /\ owner = Deployer
    /\ priceFeedBTCUSD = FeedBTC
    /\ priceFeedETHUSD = FeedETH
    /\ priceFeedLINKUSD = FeedLINK
    /\ oracle = [f \in Feeds |-> RoundData(7, 0)]
    /\ lastRead = NoRead

(* No page of the front end is open *)
NoAvailability == [checked |-> FALSE]
NoRoute == [mounted |-> FALSE]
NoChat == [mounted |-> FALSE]

Init ==
    /\ InitContract
    /\ availability = NoAvailability
    /\ route = NoRoute
    /\ chat = NoChat

(* Transactions are serialized: a call starts only when no other call is in
   progress, and lastCall holds its receipt until the transaction ends. *)
Idle == lastCall = NoCall

(* A failed require: the transaction reverts, storage is untouched and no
   event is logged. *)
Revert(call) ==
    /\ lastCall' = call
    /\ UNCHANGED <<ledger, now, env>>

-----------------------------------------------------------------------------
(* Modifiers *)

onlyRegisteredUser_Anyone(sender) == TRUE

onlyRegisteredUser(sender) == users[sender].isRegistered

UsernameNotEmpty(u) == Len(u) > 0
UsernameNotTooLong_Exclusive(u) == Len(u) < MaxUsernameLength
UsernameNotTooLong(u) == Len(u) <= MaxUsernameLength

MessageNotEmpty_Any(c) == TRUE
MessageNotEmpty(c) == Len(c) > 0
MessageNotTooLong_NoLimit(c) == TRUE
MessageNotTooLong(c) == Len(c) <= MaxMessageLength

-----------------------------------------------------------------------------
(* Views *)

isUsernameAvailable(u) == usernameToAddress[u] = ZeroAddress

isUserRegistered(a) == users[a].isRegistered

getConversationHash_Unordered(user1, user2) == <<user1, user2>>

getConversationHash(user1, user2) ==
    IF user1 < user2 THEN <<user1, user2>> ELSE <<user2, user1>>

getConversation(user1, user2) == conversations[getConversationHash(user1, user2)]

getUserConversations(a) == userConversations[a]

isInConversation(user1, user2) ==
    \E i \in 1..Len(userConversations[user1]) : userConversations[user1][i] = user2

-----------------------------------------------------------------------------
(* registerUser *)

registerUserAlready_NoCheck(sender) == FALSE

registerUserAlready(sender) == users[sender].isRegistered

registerUserTaken_NoCheck(u) == FALSE

registerUserTaken(u) == usernameToAddress[u] # ZeroAddress

registerUserProfile(u, pic) ==
    [username |-> u, ipfsProfilePicHash |-> pic, isRegistered |-> TRUE,
     registrationTimestamp |-> now, totalMessagesSent |-> 0]

UserRegistered(sender, u, pic) ==
    [name |-> "UserRegistered", userAddress |-> sender, username |-> u,
     ipfsProfilePicHash |-> pic, timestamp |-> now]

registerUser(sender, u, pic) ==
    /\ Idle
    /\ LET rej(err) == Revert(Call("registerUser", sender, u, pic, "", ZeroAddress,
                                   FALSE, err, <<>>))
       IN  IF ~UsernameNotEmpty(u) THEN rej("Username cannot be empty")
           ELSE IF ~UsernameNotTooLong(u) THEN rej("Username too long (max 50 characters)")
           ELSE IF registerUserAlready(sender) THEN rej("User is already registered")
           ELSE IF registerUserTaken(u) THEN rej("Username is already taken")
           ELSE /\ users' = [users EXCEPT ![sender] = registerUserProfile(u, pic)]
                /\ usernameToAddress' = [usernameToAddress EXCEPT ![u] = sender]
                /\ registeredUsers' = Append(registeredUsers, sender)
                /\ totalUsers' = totalUsers + 1
                /\ lastCall' = Call("registerUser", sender, u, pic, "", ZeroAddress,
                                    TRUE, "", <<UserRegistered(sender, u, pic)>>)
                /\ UNCHANGED <<conversations, userConversations, generalChatMessages,
                               totalMessages, now, env>>

-----------------------------------------------------------------------------
(* changeUsername *)

changeUsernameTaken_NoCheck(u) == FALSE

changeUsernameTaken(u) == usernameToAddress[u] # ZeroAddress

changeUsernameIndex_KeepOld(sender, newUsername) ==
    [usernameToAddress EXCEPT ![newUsername] = sender]

changeUsernameIndex(sender, newUsername) ==
    LET oldUsername == users[sender].username
        deleted == [usernameToAddress EXCEPT ![oldUsername] = ZeroAddress]
    IN  [deleted EXCEPT ![newUsername] = sender]

UsernameChanged(sender, oldUsername, newUsername) ==
    [name |-> "UsernameChanged", userAddress |-> sender, oldUsername |-> oldUsername,
     newUsername |-> newUsername, timestamp |-> now]

changeUsername(sender, newUsername) ==
    /\ Idle
    /\ LET rej(err) == Revert(Call("changeUsername", sender, newUsername, "", "",
                                   ZeroAddress, FALSE, err, <<>>))
       IN  IF ~onlyRegisteredUser(sender)
           THEN rej("User must be registered to perform this action")
           ELSE IF ~UsernameNotEmpty(newUsername) THEN rej("Username cannot be empty")
           ELSE IF ~UsernameNotTooLong(newUsername)
           THEN rej("Username too long (max 50 characters)")
           ELSE IF changeUsernameTaken(newUsername) THEN rej("Username is already taken")
           ELSE /\ usernameToAddress' = changeUsernameIndex(sender, newUsername)
                /\ users' = [users EXCEPT ![sender].username = newUsername]
                /\ lastCall' = Call("changeUsername", sender, newUsername, "", "",
                                    ZeroAddress, TRUE, "",
                                    <<UsernameChanged(sender, users[sender].username,
                                                      newUsername)>>)
                /\ UNCHANGED <<conversations, userConversations, generalChatMessages,
                               registeredUsers, totalUsers, totalMessages, now, env>>

-----------------------------------------------------------------------------
(* updateProfilePicture *)

updateProfilePicture(sender, pic) ==
    /\ Idle
    /\ IF ~onlyRegisteredUser(sender)
       THEN Revert(Call("updateProfilePicture", sender, "", pic, "", ZeroAddress, FALSE,
                        "User must be registered to perform this action", <<>>))
       ELSE /\ users' = [users EXCEPT ![sender].ipfsProfilePicHash = pic]
            /\ lastCall' = Call("updateProfilePicture", sender, "", pic, "", ZeroAddress,
                                TRUE, "", <<>>)
            /\ UNCHANGED <<usernameToAddress, conversations, userConversations,
                           generalChatMessages, registeredUsers, totalUsers,
                           totalMessages, now, env>>

-----------------------------------------------------------------------------
(* The exploration stops accepting posts once MaxPosts messages (general and
   direct together) are stored. *)

RECURSIVE SumLen(_)
SumLen(keys) ==
    IF keys = {} THEN 0
    ELSE LET k == CHOOSE x \in keys : TRUE
         IN  Len(conversations[k]) + SumLen(keys \ {k})

TotalDMs == SumLen(ConversationKeys)

TotalPosts == Len(generalChatMessages) + TotalDMs

-----------------------------------------------------------------------------
(* sendMessage *)

newMessage_IdAfterIncrement(sender, content) ==
    [sender |-> sender, content |-> content, timestamp |-> now,
     messageId |-> totalMessages + 1]

newMessage(sender, content) ==
    [sender |-> sender, content |-> content, timestamp |-> now,
     messageId |-> totalMessages]

sendMessageCount_Global(sender) == totalMessages + 1

sendMessageCount(sender) == users[sender].totalMessagesSent + 1

MessageSent_NoDecrement(sender, content, total) ==
    [name |-> "MessageSent", sender |-> sender, content |-> content,
     timestamp |-> now, messageId |-> total]

MessageSent(sender, content, total) ==
    [name |-> "MessageSent", sender |-> sender, content |-> content,
     timestamp |-> now, messageId |-> total - 1]

sendMessage(sender, content) ==
    /\ Idle
    /\ LET rej(err) == Revert(Call("sendMessage", sender, "", "", content, ZeroAddress,
                                   FALSE, err, <<>>))
       IN  IF ~onlyRegisteredUser(sender)
           THEN rej("User must be registered to perform this action")
           ELSE IF ~MessageNotEmpty(content) THEN rej("Message cannot be empty")
           ELSE IF ~MessageNotTooLong(content)
           THEN rej("Message too long (max 1000 characters)")
           ELSE /\ TotalPosts < MaxPosts
                /\ generalChatMessages' =
                       Append(generalChatMessages, newMessage(sender, content))
                /\ users' = [users EXCEPT
                               ![sender].totalMessagesSent = sendMessageCount(sender)]
                /\ totalMessages' = totalMessages + 1
                /\ lastCall' = Call("sendMessage", sender, "", "", content, ZeroAddress,
                                    TRUE, "",
                                    <<MessageSent(sender, content, totalMessages')>>)
                /\ UNCHANGED <<usernameToAddress, conversations, userConversations,
                               registeredUsers, totalUsers, now, env>>

-----------------------------------------------------------------------------
(* sendDirectMessage *)

conversationHash(sender, receiver) ==
    IF sender < receiver THEN <<sender, receiver>> ELSE <<receiver, sender>>

newDM_AlreadyRead(sender, receiver, content) ==
    [sender |-> sender, receiver |-> receiver, content |-> content,
     timestamp |-> now, isRead |-> TRUE]

newDM(sender, receiver, content) ==
    [sender |-> sender, receiver |-> receiver, content |-> content,
     timestamp |-> now, isRead |-> FALSE]

addConversationPartners_SenderOnly(sender, receiver) ==
    IF ~isInConversation(sender, receiver)
    THEN [userConversations EXCEPT ![sender] = Append(@, receiver)]
    ELSE userConversations

addConversationPartners(sender, receiver) ==
    IF ~isInConversation(sender, receiver)
    THEN LET pushed == [userConversations EXCEPT ![sender] = Append(@, receiver)]
         IN  [pushed EXCEPT ![receiver] = Append(@, sender)]
    ELSE userConversations

DirectMessageSent_AsMessageSent(sender, receiver, content) ==
    [name |-> "MessageSent", sender |-> sender, receiver |-> receiver,
     content |-> content, timestamp |-> now]

DirectMessageSent(sender, receiver, content) ==
    [name |-> "DirectMessageSent", sender |-> sender, receiver |-> receiver,
     content |-> content, timestamp |-> now]

sendDirectMessage(sender, receiver, content) ==
    /\ Idle
    /\ LET rej(err) == Revert(Call("sendDirectMessage", sender, "", "", content, receiver,
                                   FALSE, err, <<>>))
       IN  IF ~onlyRegisteredUser(sender)
           THEN rej("User must be registered to perform this action")
           ELSE IF ~MessageNotEmpty(content) THEN rej("Message cannot be empty")
           ELSE IF ~MessageNotTooLong(content)
           THEN rej("Message too long (max 1000 characters)")
           ELSE IF ~users[receiver].isRegistered THEN rej("Receiver must be registered")
           ELSE /\ TotalPosts < MaxPosts
                /\ conversations' =
                       [conversations EXCEPT ![conversationHash(sender, receiver)] =
                           Append(@, newDM(sender, receiver, content))]
                /\ userConversations' = addConversationPartners(sender, receiver)
                /\ lastCall' = Call("sendDirectMessage", sender, "", "", content, receiver,
                                    TRUE, "",
                                    <<DirectMessageSent(sender, receiver, content)>>)
                /\ UNCHANGED <<users, usernameToAddress, generalChatMessages,
                               registeredUsers, totalUsers, totalMessages, now, env>>

-----------------------------------------------------------------------------
(* A new block: block.timestamp advances *)

EndTransaction ==
    /\ ~Idle
    /\ lastCall' = NoCall
    /\ UNCHANGED <<ledger, now, env>>

Tick ==
    /\ Idle
    /\ now < MaxTime
    /\ now' = now + 1
    /\ lastCall' = NoCall
    /\ UNCHANGED <<ledger, env>>

-----------------------------------------------------------------------------

Next ==
    \/ \E a \in Callers, u \in Usernames, p \in Pics : registerUser(a, u, p)
    \/ \E a \in Callers, u \in Usernames : changeUsername(a, u)
    \/ \E a \in Callers, p \in Pics : updateProfilePicture(a, p)
    \/ \E a \in Callers, c \in Contents : sendMessage(a, c)
    \/ \E a \in Callers, b \in Callers, c \in Contents : sendDirectMessage(a, b, c)
    \/ EndTransaction

Spec == Init /\ [][Next]_vars

(* Registration and general chat alone, with the scenario's inputs *)
NextScenario ==
    \/ \E a \in Callers, u \in ScenarioUsernames, p \in Pics : registerUser(a, u, p)
    \/ \E a \in Callers, c \in ScenarioContents : sendMessage(a, c)
    \/ EndTransaction

SpecScenario == Init /\ [][NextScenario]_vars

(* The five write functions with accepted-length inputs and the block clock
   running *)
ClockUsernames == {"alice", "bob"}
ClockContents == {"h"}

NextClock ==
    \/ \E a \in Callers, u \in ClockUsernames, p \in Pics : registerUser(a, u, p)
    \/ \E a \in Callers, u \in ClockUsernames : changeUsername(a, u)
    \/ \E a \in Callers, p \in Pics : updateProfilePicture(a, p)
    \/ \E a \in Callers, c \in ClockContents : sendMessage(a, c)
    \/ \E a \in Callers, b \in Callers, c \in ClockContents : sendDirectMessage(a, b, c)
    \/ EndTransaction
    \/ Tick

SpecClock == Init /\ [][NextClock]_vars

(* Price views.  latestRoundData() of a feed gives the feed's current round
   or reverts; the getters keep the answer and drop every other field. *)
latestRoundData(feed) == oracle[feed]

getLatestPriceBTCUSD == latestRoundData(priceFeedBTCUSD)

getLatestPriceETHUSD_FromBTC == latestRoundData(priceFeedBTCUSD)

getLatestPriceETHUSD == latestRoundData(priceFeedETHUSD)

getLatestPriceLINKUSD == latestRoundData(priceFeedLINKUSD)

PriceRead(ok, btcPrice, ethPrice, linkPrice) ==
    [op |-> "getAllPrices", ok |-> ok, btcPrice |-> btcPrice,
     ethPrice |-> ethPrice, linkPrice |-> linkPrice]

getAllPrices ==
    LET btc == getLatestPriceBTCUSD
        eth == getLatestPriceETHUSD
        link == getLatestPriceLINKUSD
    IN  /\ lastRead' = IF btc.reverts \/ eth.reverts \/ link.reverts
                        THEN PriceRead(FALSE, 0, 0, 0)
                        ELSE PriceRead(TRUE, btc.answer, eth.answer, link.answer)
        /\ UNCHANGED <<ledger, now, lastCall, admin, oracle, frontend>>

(* A feed publishes a new round, or starts or stops reverting *)
OracleUpdate(feed, outcome) ==
    /\ outcome # oracle[feed]
    /\ outcome.updatedAt <= now
    /\ oracle' = [oracle EXCEPT ![feed] = outcome]
    /\ UNCHANGED <<ledger, now, lastCall, admin, lastRead, frontend>>

PriceUsernames == {"alice"}

(* useUsernameAvailability (hooks/useAmigoContract.js): String methods *)
UpperCaseLetters == "ABCDEFGHIJKLMNOPQRSTUVWXYZ"
LowerCaseLetters == "abcdefghijklmnopqrstuvwxyz"

toLowerCaseChar(c) ==
    IF \E i \in 1..Len(UpperCaseLetters) : SubSeq(UpperCaseLetters, i, i) = c
    THEN LET i == CHOOSE j \in 1..Len(UpperCaseLetters) :
                      SubSeq(UpperCaseLetters, j, j) = c
         IN  SubSeq(LowerCaseLetters, i, i)
    ELSE c

RECURSIVE toLowerCase(_)
toLowerCase(str) ==
    IF str = "" THEN ""
    ELSE toLowerCaseChar(SubSeq(str, 1, 1)) \o toLowerCase(SubSeq(str, 2, Len(str)))

startsWith(str, prefix) ==
    Len(str) >= Len(prefix) /\ SubSeq(str, 1, Len(prefix)) = prefix

(* CONTRACT_INFO.address is set: the contract is deployed *)
ContractDeployed == TRUE

Availability(username, isAvailable, error) ==
    [checked |-> TRUE, username |-> username, isChecking |-> FALSE,
     isAvailable |-> isAvailable, error |-> error]

checkAvailabilityAnswer(username) == ~startsWith(toLowerCase(username), "admin")

checkAvailability(username) ==
    /\ availability' =
          IF username = "" \/ Len(username) < 3
          THEN Availability(username, FALSE, "Username must be at least 3 characters")
          ELSE IF ~ContractDeployed
          THEN Availability(username, FALSE, "Contract not deployed")
          ELSE IF checkAvailabilityAnswer(username)
          THEN Availability(username, TRUE, "null")
          ELSE Availability(username, FALSE, "Username not available")
    /\ UNCHANGED <<ledger, now, lastCall, admin, oracle, lastRead, route, chat>>

NextAvailability ==
    \/ \E a \in Callers, u \in AvailabilityUsernames : registerUser(a, u, "ref1")
    \/ \E a \in Callers, u \in AvailabilityUsernames : changeUsername(a, u)
    \/ EndTransaction
    \/ \E u \in AvailabilityUsernames : checkAvailability(u)

SpecAvailability == Init /\ [][NextAvailability]_vars

-----------------------------------------------------------------------------
(* Router (App routes), ProtectedRoute, LandingPage and RegisterPage.
   route.status is the wallet's connection status (useAccount), route.data
   and route.isFetching the registration query of useIsUserRegistered
   (data is "undefined" until a fetch succeeds), route.registration the
   progress of RegisterPage's registration and of its success effect. *)
WalletAddress == 1

Paths == {"/", "/register", "/chat", "/profile"}

RouteState(refetchOnChat) ==
    [mounted |-> TRUE, pathname |-> "/", status |-> "disconnected",
     data |-> "undefined", isFetching |-> FALSE,
     hasCheckedRequirements |-> FALSE, registration |-> "idle",
     navigation |-> "load", refetchOnChat |-> refetchOnChat]

isConnected == route.status = "connected"
isConnecting == route.status = "connecting"
isRegistered == route.data = "true"
isCheckingRegistration == route.isFetching /\ route.data = "undefined"

Loading == [view |-> "loading", to |-> ""]
Navigate(to) == [view |-> "Navigate", to |-> to]
Children == [view |-> "children", to |-> ""]

ProtectedRoute(pathname, requireConnection, requireRegistration) ==
    IF \/ isConnecting
       \/ (requireRegistration /\ isCheckingRegistration)
       \/ ~route.hasCheckedRequirements
    THEN Loading
    ELSE IF requireConnection /\ ~isConnected THEN Navigate("/")
    ELSE IF requireRegistration /\ isConnected /\ ~isRegistered
    THEN Navigate("/register")
    ELSE IF pathname = "/register" /\ isConnected /\ isRegistered
    THEN Navigate("/chat")
    ELSE Children

requireRegistration_ChatOnly(pathname) == pathname = "/chat"

requireRegistration(pathname) == pathname \in {"/chat", "/profile"}

(* What the router renders at a path *)
App(pathname) ==
    IF pathname = "/" THEN Children
    ELSE ProtectedRoute(pathname, TRUE, requireRegistration(pathname))

(* The ProtectedRoute of the new path starts with hasCheckedRequirements
   false when it is mounted afresh and keeps the old value when the
   instance is reused across the two routes. *)
Remounted(to) ==
    IF to = route.pathname THEN {route.hasCheckedRequirements}
    ELSE IF to = "/" \/ route.pathname = "/" THEN {FALSE}
    ELSE {FALSE, route.hasCheckedRequirements}

GoTo(to, by, registration) ==
    /\ \E h \in Remounted(to) :
          route' = [route EXCEPT !.pathname = to, !.hasCheckedRequirements = h,
                                 !.navigation = by, !.registration = registration]
    /\ UNCHANGED <<ledger, now, lastCall, admin, oracle, lastRead, availability, chat>>

RouteStep(next) ==
    /\ route' = next
    /\ UNCHANGED <<ledger, now, lastCall, admin, oracle, lastRead, availability, chat>>

(* React runs a rendered <Navigate> and a pending effect before it handles
   any later event: while one of them is due nothing else happens in the
   front end. *)
RenderSettled ==
    /\ App(route.pathname).view # "Navigate"
    /\ ~(/\ route.pathname # "/"
         /\ ~isConnecting /\ ~isCheckingRegistration
         /\ ~route.hasCheckedRequirements)

connect ==
    /\ RenderSettled
    /\ route.status = "disconnected"
    /\ RouteStep([route EXCEPT !.status = "connecting"])

connected ==
    /\ RenderSettled
    /\ route.status = "connecting"
    /\ RouteStep([route EXCEPT !.status = "connected", !.isFetching = TRUE])

disconnect ==
    /\ RenderSettled
    /\ route.status = "connected"
    /\ RouteStep([route EXCEPT !.status = "disconnected", !.data = "undefined",
                               !.isFetching = FALSE,
                               !.registration =
                                   IF @ = "refetching" THEN "navigating"
                                   ELSE IF @ = "navigated" THEN "idle" ELSE @])

(* The registration query's fetch ends: with the ledger's answer, or with an
   error that leaves the data as it was.  RegisterPage awaits it in
   performRedirect and then arms the navigation timer in either case. *)
AfterRefetch == IF route.registration = "refetching" THEN "navigating"
                ELSE route.registration

queryResolve ==
    /\ RenderSettled
    /\ route.isFetching
    /\ RouteStep([route EXCEPT !.isFetching = FALSE,
                               !.data = IF isUserRegistered(WalletAddress)
                                        THEN "true" ELSE "false",
                               !.registration = AfterRefetch])

queryFail ==
    /\ RenderSettled
    /\ route.isFetching
    /\ RouteStep([route EXCEPT !.isFetching = FALSE, !.registration = AfterRefetch])

refetchOnWindowFocus ==
    /\ RenderSettled
    /\ isConnected /\ ~route.isFetching
    /\ RouteStep([route EXCEPT !.isFetching = TRUE])

(* ProtectedRoute's first effect *)
hasCheckedEffect ==
    /\ route.pathname # "/"
    /\ ~isConnecting /\ ~isCheckingRegistration
    /\ ~route.hasCheckedRequirements
    /\ RouteStep([route EXCEPT !.hasCheckedRequirements = TRUE])

(* ProtectedRoute's second effect, present in one revision of the component *)
refetchOnChatEffect ==
    /\ RenderSettled
    /\ route.refetchOnChat
    /\ route.pathname = "/chat" /\ isConnected /\ ~isCheckingRegistration
    /\ ~route.isFetching
    /\ RouteStep([route EXCEPT !.isFetching = TRUE])

(* A rendered <Navigate> element changes the location *)
navigateElement ==
    /\ App(route.pathname).view = "Navigate"
    /\ GoTo(App(route.pathname).to, "ProtectedRoute", route.registration)

landingRedirect ==
    /\ RenderSettled
    /\ route.pathname = "/"
    /\ isConnected /\ ~isCheckingRegistration
    /\ GoTo(IF isRegistered THEN "/chat" ELSE "/register", "LandingPage",
            route.registration)

userNavigate(to) ==
    /\ RenderSettled
    /\ to # route.pathname
    /\ GoTo(to, "user", IF route.registration = "navigated" THEN "idle"
                        ELSE route.registration)

(* RegisterPage: the registration is submitted, confirmed (registerSuccess),
   then the success effect refetches the registration status and navigates *)
handleRegistration ==
    /\ RenderSettled
    /\ route.pathname = "/register" /\ App("/register") = Children
    /\ route.registration = "idle"
    /\ RouteStep([route EXCEPT !.registration = "submitted"])

(* The submitted registerUser transaction is executed by the ledger *)
registrationMined(username) ==
    /\ route.registration = "submitted"
    /\ registerUser(WalletAddress, username, "ref1")

registerSuccess ==
    /\ RenderSettled
    /\ route.registration = "submitted"
    /\ lastCall.op = "registerUser" /\ lastCall.ok /\ lastCall.sender = WalletAddress
    /\ RouteStep([route EXCEPT !.registration = "confirmed"])

performRedirect ==
    /\ RenderSettled
    /\ route.registration = "confirmed"
    /\ RouteStep([route EXCEPT !.registration = "refetching", !.isFetching = TRUE])

navigateToChat ==
    /\ RenderSettled
    /\ route.registration = "navigating"
    /\ GoTo("/chat", "RegisterPage", "navigated")

RouteFrontend ==
    \/ connect \/ connected \/ disconnect
    \/ queryResolve \/ queryFail \/ refetchOnWindowFocus
    \/ hasCheckedEffect \/ refetchOnChatEffect
    \/ navigateElement \/ landingRedirect
    \/ \E to \in Paths : userNavigate(to)
    \/ handleRegistration \/ registerSuccess \/ performRedirect \/ navigateToChat

NextRoutes ==
    \/ RouteFrontend
    \/ \E u \in PriceUsernames : registrationMined(u)
    \/ EndTransaction

InitRoutes ==
    /\ InitContract
    /\ availability = NoAvailability
    /\ route \in {RouteState(r) : r \in BOOLEAN}
    /\ chat = NoChat

(* Effects run and rendered redirects happen as soon as they are due; a
   fetch ends and an armed timer fires at some moment at which the page is
   settled.  What the user, the wallet and the ledger do is not forced. *)
SpecRoutes ==
    /\ InitRoutes /\ [][NextRoutes]_vars
    /\ WF_vars(hasCheckedEffect)
    /\ WF_vars(navigateElement)
    /\ SF_vars(queryResolve \/ queryFail)
    /\ SF_vars(performRedirect)
    /\ SF_vars(navigateToChat)

(* Owner functions.  Neither emits an event; updatePriceFeeds takes any three
   addresses, address(0) included. *)
onlyOwner_Anyone(sender) == TRUE

onlyOwner(sender) == sender = owner

FeedAddresses == Feeds \cup {ZeroAddress}

AdminCall(op, sender, newOwner, feeds, ok, err) ==
    [op |-> op, sender |-> sender, newOwner |-> newOwner, feeds |-> feeds,
     ok |-> ok, err |-> err, events |-> <<>>]

NotOwner == "Only contract owner can call this function"

transferOwnership(sender, newOwner) ==
    /\ Idle
    /\ LET rej(err) == Revert(AdminCall("transferOwnership", sender, newOwner, <<>>,
                                        FALSE, err))
       IN  IF ~onlyOwner(sender) THEN rej(NotOwner)
           ELSE IF newOwner = ZeroAddress THEN rej("New owner cannot be zero address")
           ELSE /\ owner' = newOwner
                /\ lastCall' = AdminCall("transferOwnership", sender, newOwner, <<>>,
                                         TRUE, "")
                /\ UNCHANGED <<ledger, now, priceFeedBTCUSD, priceFeedETHUSD,
                               priceFeedLINKUSD, oracle, lastRead, frontend>>

updatePriceFeeds(sender, btc, eth, link) ==
    /\ Idle
    /\ LET rej(err) == Revert(AdminCall("updatePriceFeeds", sender, ZeroAddress,
                                        <<btc, eth, link>>, FALSE, err))
       IN  IF ~onlyOwner(sender) THEN rej(NotOwner)
           ELSE /\ priceFeedBTCUSD' = btc
                /\ priceFeedETHUSD' = eth
                /\ priceFeedLINKUSD' = link
                /\ lastCall' = AdminCall("updatePriceFeeds", sender, ZeroAddress,
                                         <<btc, eth, link>>, TRUE, "")
                /\ UNCHANGED <<ledger, now, owner, oracle, lastRead, frontend>>

NextAdmin ==
    \/ \E a \in Callers, n \in Addresses : transferOwnership(a, n)
    \/ \E a \in Callers, b \in FeedAddresses, e \in FeedAddresses, l \in FeedAddresses :
          updatePriceFeeds(a, b, e, l)
    \/ \E a \in Callers, u \in PriceUsernames : registerUser(a, u, "ref1")
    \/ \E a \in Callers : sendMessage(a, "h")
    \/ EndTransaction

SpecAdmin == Init /\ [][NextAdmin]_vars

NextPrices ==
    \/ \E a \in Callers, u \in PriceUsernames : registerUser(a, u, "ref1")
    \/ EndTransaction
    \/ Tick
    \/ \E f \in Feeds, o \in OracleOutcomes : OracleUpdate(f, o)
    \/ getAllPrices

SpecPrices == Init /\ [][NextPrices]_vars

-----------------------------------------------------------------------------
(* ChatPage (pages/ChatPage.jsx) with useSendMessage and usePriceFeeds
   (hooks/useAmigoContract.js).  Times are in seconds.  chat.refetch,
   chat.initialTimeout and chat.priceInterval are the seconds left on the
   price queries' refetch timer, on the effect's setTimeout and on its
   setInterval (NoTimer: not armed); chat.writes are the sendMessage writes
   the page has submitted since it was mounted, oldest first;
   chat.sinceHourly is the time since the page was mounted or since the
   last post made by the interval, counted up to one hour. *)
MaxWrites == 2

PriceInterval == 3600
InitialDelay == 10
RefetchInterval == 30
NoTimer == -1

MessageInputs == {"", " ", "hi", " hi "}

NullPrices == [btc |-> "null", eth |-> "null", link |-> "null"]

(* Number(data[1]) / 10^decimals, toFixed(2); null without data or when the
   answer is 0 *)
toFixed2(answer, decimals) ==
    LET magnitude == IF answer < 0 THEN 0 - answer ELSE answer
        half      == (10 ^ (decimals - 2)) \div 2
        hundredths == (magnitude + half) \div (10 ^ (decimals - 2))
        fraction  == hundredths % 100
    IN  (IF answer < 0 THEN "-" ELSE "")
            \o ToString(hundredths \div 100) \o "."
            \o (IF fraction < 10 THEN "0" ELSE "") \o ToString(fraction)

formatPrice(data, decimals) ==
    IF data.reverts \/ data.answer = 0 THEN "null"
    ELSE toFixed2(data.answer, decimals)

newPrices(data) ==
    [btc  |-> formatPrice(data[FeedBTC], 8),
     eth  |-> formatPrice(data[FeedETH], 8),
     link |-> formatPrice(data[FeedLINK], 8)]

(* prices.btc || prices.eth || prices.link *)
validPrices(prices) ==
    prices.btc # "null" \/ prices.eth # "null" \/ prices.link # "null"

(* parseFloat(price).toLocaleString() for prices below 1000: the digits
   without the zeros that end the fraction *)
RECURSIVE safePriceFormat(_)
safePriceFormat(price) ==
    LET n == Len(price)
    IN  IF n > 1 /\ SubSeq(price, n, n) = "0" /\ \E i \in 1..n : SubSeq(price, i, i) = "."
        THEN safePriceFormat(SubSeq(price, 1, n - 1))
        ELSE IF n > 1 /\ SubSeq(price, n, n) = "."
        THEN SubSeq(price, 1, n - 1)
        ELSE price

formatPriceMessage(prices) ==
    "Price Update"
        \o (IF prices.btc # "null" THEN " BTC: $" \o safePriceFormat(prices.btc) ELSE "")
        \o (IF prices.eth # "null" THEN " ETH: $" \o safePriceFormat(prices.eth) ELSE "")
        \o (IF prices.link # "null" THEN " LINK: $" \o safePriceFormat(prices.link) ELSE "")
        \o " Powered by Chainlink Oracles"

(* String.prototype.trim *)
RECURSIVE trim(_)
trim(str) ==
    IF str = "" THEN ""
    ELSE IF SubSeq(str, 1, 1) = " " THEN trim(SubSeq(str, 2, Len(str)))
    ELSE IF SubSeq(str, Len(str), Len(str)) = " "
    THEN trim(SubSeq(str, 1, Len(str) - 1))
    ELSE str

ChatState(sent) ==
    [mounted |-> TRUE,
     data |-> [f \in Feeds |-> Reverts], isLoading |-> TRUE,
     isError |-> [f \in Feeds |-> FALSE],
     prices |-> NullPrices,
     refetch |-> 0, initialTimeout |-> InitialDelay, priceInterval |-> PriceInterval,
     messageInput |-> "", writes |-> <<>>, base |-> sent, failed |-> 0,
     sinceHourly |-> 0]

ChatStep(next) ==
    /\ chat' = next
    /\ UNCHANGED <<ledger, now, lastCall, admin, oracle, lastRead, availability, route>>

(* Writes of the page that have ended: mined by the ledger or failed *)
Completed == (users[WalletAddress].totalMessagesSent - chat.base) + chat.failed

Pending == Len(chat.writes) - Completed

(* What useSendMessage returns; sendMessage, error and hash are not values
   the page tests *)
useSendMessage ==
    [isPending |-> Pending > 0, isConfirming |-> Pending > 0,
     isConfirmed |-> Completed > chat.failed]

(* const { sendMessage, isSending } = useSendMessage(): a property the
   object does not have is undefined, which a condition takes as false *)
destructure(object, property) ==
    IF property \in DOMAIN object THEN object[property] ELSE FALSE

isSending == destructure(useSendMessage, "isSending")

Write(content, by) == [content |-> content, by |-> by]

(* useSendMessage's sendMessage: writeContract starts one more write *)
writeContract(state, content, by) ==
    [state EXCEPT !.writes = Append(@, Write(content, by))]

chatMount ==
    /\ ~chat.mounted
    /\ isUserRegistered(WalletAddress)
    /\ ChatStep(ChatState(users[WalletAddress].totalMessagesSent))

setMessageInput(value) ==
    /\ chat.mounted
    /\ value # chat.messageInput
    /\ ChatStep([chat EXCEPT !.messageInput = value])

handleSendMessage ==
    /\ chat.mounted
    /\ IF trim(chat.messageInput) = "" \/ isSending
       THEN ChatStep(chat)
       ELSE /\ Len(chat.writes) < MaxWrites
            /\ ChatStep([writeContract(chat, trim(chat.messageInput), "handleSendMessage")
                            EXCEPT !.messageInput = ""])

(* The oldest pending write is executed by the ledger, or fails (the user
   rejects it in the wallet, the network drops it) *)
writeMined ==
    /\ chat.mounted
    /\ Pending > 0
    /\ sendMessage(WalletAddress, chat.writes[Completed + 1].content)

writeFailed ==
    /\ chat.mounted
    /\ Pending > 0
    /\ ChatStep([chat EXCEPT !.failed = @ + 1])

(* The three price queries refetch together; a failed fetch keeps the data
   and sets isError.  usePriceFeeds' effect runs when the data or a flag
   changed and sets a new prices object when one price is valid, and the
   page's price effect, which depends on prices, then clears and arms its
   two timers again. *)
pricePoll ==
    /\ chat.mounted
    /\ chat.refetch = 0
    /\ LET data    == [f \in Feeds |-> IF latestRoundData(f).reverts THEN chat.data[f]
                                       ELSE latestRoundData(f)]
           isError == [f \in Feeds |-> latestRoundData(f).reverts]
           changed == data # chat.data \/ isError # chat.isError \/ chat.isLoading
           polled  == [chat EXCEPT !.data = data, !.isError = isError,
                                   !.isLoading = FALSE, !.refetch = RefetchInterval]
       IN  IF changed /\ validPrices(newPrices(data))
           THEN ChatStep([polled EXCEPT !.prices = newPrices(data),
                                        !.initialTimeout = InitialDelay,
                                        !.priceInterval = PriceInterval])
           ELSE ChatStep(polled)

(* postPriceUpdate, called by the timer `by` *)
postPriceUpdate(state, by) ==
    IF ~validPrices(state.prices) THEN state
    ELSE writeContract(state, formatPriceMessage(state.prices), by)

initialTimeout ==
    /\ chat.mounted
    /\ chat.initialTimeout = 0
    /\ validPrices(chat.prices) => Len(chat.writes) < MaxWrites
    /\ ChatStep(postPriceUpdate([chat EXCEPT !.initialTimeout = NoTimer],
                                "initialTimeout"))

priceInterval ==
    /\ chat.mounted
    /\ chat.priceInterval = 0
    /\ validPrices(chat.prices) => Len(chat.writes) < MaxWrites
    /\ ChatStep(postPriceUpdate([chat EXCEPT !.priceInterval = PriceInterval,
                                             !.sinceHourly = 0],
                                "priceInterval"))

(* Time passes until the next timer is due *)
Min(S) == CHOOSE x \in S : \A y \in S : x <= y

timePasses ==
    /\ chat.mounted
    /\ chat.refetch > 0 /\ chat.initialTimeout # 0 /\ chat.priceInterval > 0
    /\ LET d == Min({chat.refetch, chat.priceInterval}
                    \cup (IF chat.initialTimeout = NoTimer THEN {}
                          ELSE {chat.initialTimeout}))
       IN  ChatStep([chat EXCEPT
                        !.refetch = @ - d,
                        !.priceInterval = @ - d,
                        !.initialTimeout = IF @ = NoTimer THEN NoTimer ELSE @ - d,
                        !.sinceHourly = Min({@ + d, PriceInterval})])

(* The price feed reports a new round between two polls *)
ChatOutcomes == {RoundData(v, 0) : v \in Answers} \cup {Reverts}

(* The page's timers and price posts, with nobody typing *)
NextChatPrices ==
    \/ \E u \in PriceUsernames : registerUser(WalletAddress, u, "ref1")
    \/ EndTransaction
    \/ chatMount
    \/ \E o \in ChatOutcomes : OracleUpdate(FeedBTC, o)
    \/ pricePoll \/ initialTimeout \/ priceInterval \/ timePasses

SpecChatPrices == Init /\ [][NextChatPrices]_vars

(* The user's messages and their writes, before the first timer is due *)
NextChatSend ==
    \/ \E u \in PriceUsernames : registerUser(WalletAddress, u, "ref1")
    \/ EndTransaction
    \/ chatMount
    \/ \E v \in MessageInputs : setMessageInput(v)
    \/ handleSendMessage
    \/ writeMined \/ writeFailed

SpecChatSend == Init /\ [][NextChatSend]_vars

-----------------------------------------------------------------------------
(* Helpers for stating the properties *)

Count(seq, x) == Cardinality({i \in 1..Len(seq) : seq[i] = x})

SentBy(a) == Cardinality({i \in 1..Len(generalChatMessages) :
                            generalChatMessages[i].sender = a})

Range(seq) == {seq[i] : i \in 1..Len(seq)}

Taken == "Username is already taken"

-----------------------------------------------------------------------------
(* C1: no two distinct registered addresses have the same username in their
   profile, in any reachable state. *)
C1_UniqueUsernames ==
    \A a, b \in Addresses :
        (a # b /\ users[a].isRegistered /\ users[b].isRegistered)
            => users[a].username # users[b].username

C1_Witness ==
    /\ lastCall.op = "changeUsername" /\ lastCall.ok
    /\ \A a \in Callers : users[a].isRegistered

(* C2: the username index is the exact inverse of the profiles: a registered
   address is the index entry of its own username, and every non-zero index
   entry points to a registered address whose profile carries that username. *)
C2_IndexIsInverse ==
    /\ \A a \in Addresses :
          users[a].isRegistered => usernameToAddress[users[a].username] = a
    /\ \A u \in DOMAIN usernameToAddress :
          usernameToAddress[u] # ZeroAddress =>
              /\ users[usernameToAddress[u]].isRegistered
              /\ users[usernameToAddress[u]].username = u

C2_Witness ==
    /\ lastCall.op = "changeUsername" /\ lastCall.ok
    /\ totalUsers = 2
    /\ \E u \in Usernames : Len(u) > 0 /\ Len(u) <= MaxUsernameLength
                            /\ usernameToAddress[u] = ZeroAddress

(* C3: the general-channel message at position i (zero-based) has
   messageId = i, and totalMessages is the number of stored messages. *)
C3_GaplessIds ==
    /\ totalMessages = Len(generalChatMessages)
    /\ \A i \in 1..Len(generalChatMessages) :
          generalChatMessages[i].messageId = i - 1

C3_Witness ==
    /\ Len(generalChatMessages) = 2
    /\ generalChatMessages[1].sender # generalChatMessages[2].sender

(* C4: users[a].totalMessagesSent is the number of general-channel messages
   sent by a, and only a successful sendMessage by a changes it. *)
C4_CountMatches ==
    \A a \in Addresses : users[a].totalMessagesSent = SentBy(a)

C4_OnlySendMessage ==
    \A a \in Addresses :
        users'[a].totalMessagesSent # users[a].totalMessagesSent =>
            /\ lastCall'.op = "sendMessage"
            /\ lastCall'.ok
            /\ lastCall'.sender = a

(* C4: the count invariant and the only-sendMessage step property together. *)
C4_MessagesSent == [](C4_CountMatches) /\ [][C4_OnlySendMessage]_vars

C4_Witness ==
    /\ lastCall.op = "sendDirectMessage" /\ lastCall.ok
    /\ users[lastCall.sender].totalMessagesSent = 1
    /\ \E b \in Callers : users[b].isRegistered /\ users[b].totalMessagesSent = 0

(* C5: a successful sendMessage by a with content c appends exactly one
   message (a, c) whose id is the previous message count, keeps the earlier
   messages, adds 1 to a's totalMessagesSent, and emits one MessageSent
   event carrying the stored message's id. *)
C5_Step ==
    (lastCall'.op = "sendMessage" /\ lastCall'.ok) =>
        LET a == lastCall'.sender
            n == Len(generalChatMessages)
        IN  /\ Len(generalChatMessages') = n + 1
            /\ SubSeq(generalChatMessages', 1, n) = generalChatMessages
            /\ generalChatMessages'[n + 1].sender = a
            /\ generalChatMessages'[n + 1].content = lastCall'.content
            /\ generalChatMessages'[n + 1].messageId = n
            /\ users'[a].totalMessagesSent = users[a].totalMessagesSent + 1
            /\ Len(lastCall'.events) = 1
            /\ lastCall'.events[1].name = "MessageSent"
            /\ lastCall'.events[1].sender = a
            /\ lastCall'.events[1].content = lastCall'.content
            /\ lastCall'.events[1].messageId = generalChatMessages'[n + 1].messageId

(* C5: every successful sendMessage step has the effect above. *)
C5_SendMessageEffect == [][C5_Step]_vars

C5_Witness ==
    /\ lastCall.op = "sendMessage" /\ lastCall.ok
    /\ Len(generalChatMessages) = 2
    /\ lastCall.events[1].messageId = 1

(* C6: a successful changeUsername(a, newName) takes the ledger from a state
   where oldName is claimed and newName available to a state where oldName
   is available, newName claimed and a's profile says newName; in neither
   state are both names claimed or both available. *)
C6_Step ==
    (lastCall'.op = "changeUsername" /\ lastCall'.ok) =>
        LET a == lastCall'.sender
            newName == lastCall'.username
            oldName == users[a].username
        IN  /\ ~isUsernameAvailable(oldName) /\ isUsernameAvailable(newName)
            /\ usernameToAddress'[oldName] = ZeroAddress
            /\ usernameToAddress'[newName] # ZeroAddress
            /\ users'[a].username = newName

(* C6: every successful changeUsername step swaps the two names' availability. *)
C6_ChangeUsernameSwap == [][C6_Step]_vars

C6_Witness ==
    /\ lastCall.op = "changeUsername" /\ lastCall.ok
    /\ users[lastCall.sender].username = lastCall.username
    /\ totalUsers = 1

(* C7 as stated: changeUsername is rejected as 'username taken' only when the
   new name is claimed by a different address, never for the caller's own
   current username. *)
C7_TakenOnlyByOthers ==
    (lastCall.op = "changeUsername" /\ lastCall.err = Taken) =>
        usernameToAddress[lastCall.username] \notin {ZeroAddress, lastCall.sender}

(* C7 amended: changeUsername by a registered caller with a new name of valid
   length is rejected as 'username taken' exactly when the new name has an
   index entry, whoever owns it; a caller passing their own current username
   is rejected as 'username taken'. *)
C7_Step ==
    (/\ lastCall'.op = "changeUsername"
     /\ users[lastCall'.sender].isRegistered
     /\ Len(lastCall'.username) >= 1
     /\ Len(lastCall'.username) <= MaxUsernameLength) =>
        /\ (lastCall'.err = Taken) <=>
               (usernameToAddress[lastCall'.username] # ZeroAddress)
        /\ lastCall'.ok <=> (lastCall'.err # Taken)
        /\ users[lastCall'.sender].username = lastCall'.username =>
               lastCall'.err = Taken

(* C7 amended: holds of every changeUsername step. *)
C7_TakenByAnyone == [][C7_Step]_vars

C7_Witness ==
    /\ lastCall.op = "changeUsername"
    /\ lastCall.err = Taken
    /\ users[lastCall.sender].username = lastCall.username

(* C8: a write call that fails a precondition (or is rejected for any reason)
   leaves profiles, username index, registered-address list, counters,
   general messages, conversations and conversation index as they were, and
   emits no event. *)
ValidUsernameLength(u) == Len(u) >= 1 /\ Len(u) <= MaxUsernameLength
ValidContentLength(c) == Len(c) >= 1 /\ Len(c) <= MaxMessageLength

PreconditionsHold(call) ==
    CASE call.op = "registerUser" ->
            /\ ~users[call.sender].isRegistered
            /\ ValidUsernameLength(call.username)
            /\ usernameToAddress[call.username] = ZeroAddress
      [] call.op = "changeUsername" ->
            /\ users[call.sender].isRegistered
            /\ ValidUsernameLength(call.username)
            /\ usernameToAddress[call.username] \in {ZeroAddress, call.sender}
      [] call.op = "updateProfilePicture" ->
            users[call.sender].isRegistered
      [] call.op = "sendMessage" ->
            /\ users[call.sender].isRegistered
            /\ ValidContentLength(call.content)
      [] call.op = "sendDirectMessage" ->
            /\ users[call.sender].isRegistered
            /\ users[call.receiver].isRegistered
            /\ ValidContentLength(call.content)
      [] OTHER -> TRUE

C8_Step ==
    (~lastCall'.ok \/ ~PreconditionsHold(lastCall')) =>
        /\ ~lastCall'.ok
        /\ UNCHANGED ledger
        /\ lastCall'.events = <<>>

(* C8: every rejected write call is a step that changes no ledger state. *)
C8_RejectedCallsChangeNothing == [][C8_Step]_vars

C8_Witness ==
    /\ lastCall.op = "sendMessage"
    /\ ~lastCall.ok
    /\ Len(lastCall.content) = MaxMessageLength + 1
    /\ Len(generalChatMessages) = 1

(* C9 as stated: once a and b have exchanged a direct message, b appears
   exactly once in userConversations[a] and a exactly once in
   userConversations[b], for every pair the ledger accepts, a = b included. *)
C9_PartnerListedOnce ==
    \A a, b \in Callers :
        getConversation(a, b) # <<>> =>
            /\ Count(userConversations[a], b) = 1
            /\ Count(userConversations[b], a) = 1

(* C10: getConversation(a, b) and getConversation(b, a) are the same sequence
   for all addresses, and every stored direct message from a to b is in
   both. *)
C10_ConversationSymmetric ==
    /\ \A a, b \in Addresses : getConversation(a, b) = getConversation(b, a)
    /\ \A k \in ConversationKeys : \A m \in Range(conversations[k]) :
          /\ m \in Range(getConversation(m.sender, m.receiver))
          /\ m \in Range(getConversation(m.receiver, m.sender))
    /\ (lastCall.op = "sendDirectMessage" /\ lastCall.ok) =>
          LET conv == getConversation(lastCall.receiver, lastCall.sender)
          IN  /\ conv # <<>>
              /\ conv[Len(conv)].sender = lastCall.sender
              /\ conv[Len(conv)].receiver = lastCall.receiver
              /\ conv[Len(conv)].content = lastCall.content

C10_Witness ==
    /\ lastCall.op = "sendDirectMessage" /\ lastCall.ok
    /\ lastCall.sender > lastCall.receiver
    /\ Len(getConversation(lastCall.receiver, lastCall.sender)) = 2

-----------------------------------------------------------------------------
NotRegistered == "User must be registered to perform this action"
AlreadyRegistered == "User is already registered"
UsernameEmpty == "Username cannot be empty"
UsernameTooLong == "Username too long (max 50 characters)"
ReceiverNotRegistered == "Receiver must be registered"

WriteOps == {"registerUser", "changeUsername", "updateProfilePicture",
             "sendMessage", "sendDirectMessage"}

(* C11 as stated: each of the five write operations emits exactly one event
   on every successful call. *)
C11_OneEventEach ==
    (lastCall.op \in WriteOps /\ lastCall.ok) => Len(lastCall.events) = 1

(* C11 amended: registerUser, changeUsername, sendMessage and
   sendDirectMessage emit exactly one event (UserRegistered, UsernameChanged,
   MessageSent, DirectMessageSent) on every successful call;
   updateProfilePicture emits none; a rejected call emits none. *)
EventOf(op) ==
    CASE op = "registerUser" -> "UserRegistered"
      [] op = "changeUsername" -> "UsernameChanged"
      [] op = "sendMessage" -> "MessageSent"
      [] op = "sendDirectMessage" -> "DirectMessageSent"

C11_OneEventExceptPicture ==
    /\ (lastCall.op \in WriteOps \ {"updateProfilePicture"} /\ lastCall.ok) =>
          /\ Len(lastCall.events) = 1
          /\ lastCall.events[1].name = EventOf(lastCall.op)
          /\ lastCall.events[1].timestamp = now
    /\ (lastCall.op = "registerUser" /\ lastCall.ok) =>
          /\ lastCall.events[1].userAddress = lastCall.sender
          /\ lastCall.events[1].username = lastCall.username
          /\ lastCall.events[1].ipfsProfilePicHash = lastCall.pic
    /\ (lastCall.op = "sendDirectMessage" /\ lastCall.ok) =>
          /\ lastCall.events[1].sender = lastCall.sender
          /\ lastCall.events[1].receiver = lastCall.receiver
          /\ lastCall.events[1].content = lastCall.content
    /\ (lastCall.op = "updateProfilePicture" /\ lastCall.ok) => lastCall.events = <<>>
    /\ ~lastCall.ok => lastCall.events = <<>>

C11_Witness ==
    /\ lastCall.op = "updateProfilePicture" /\ lastCall.ok
    /\ users[lastCall.sender].ipfsProfilePicHash = "ref2"
    /\ Len(generalChatMessages) = 1

(* C12: registerUser by a succeeds iff a is not registered, the username
   length is in [1,50] and the username is unclaimed; when exactly one of
   the three fails, the rejection names that one. *)
C12_Step ==
    lastCall'.op = "registerUser" =>
        LET a == lastCall'.sender
            u == lastCall'.username
            fresh == ~users[a].isRegistered
            valid == Len(u) >= 1 /\ Len(u) <= MaxUsernameLength
            free == usernameToAddress[u] = ZeroAddress
        IN  /\ lastCall'.ok <=> (fresh /\ valid /\ free)
            /\ (~fresh /\ valid /\ free) => lastCall'.err = AlreadyRegistered
            /\ (fresh /\ ~valid /\ free) =>
                  lastCall'.err = IF Len(u) = 0 THEN UsernameEmpty ELSE UsernameTooLong
            /\ (fresh /\ valid /\ ~free) => lastCall'.err = Taken
            /\ lastCall'.ok =>
                  /\ users'[a].isRegistered
                  /\ users'[a].username = u
                  /\ usernameToAddress'[u] = a

C13_Step ==
    lastCall'.op = "sendDirectMessage" =>
        LET a == lastCall'.sender
            b == lastCall'.receiver
            c == lastCall'.content
        IN  /\ (/\ users[a].isRegistered
                /\ Len(c) >= 1 /\ Len(c) <= MaxMessageLength
                /\ ~users[b].isRegistered) =>
                  /\ ~lastCall'.ok
                  /\ lastCall'.err = ReceiverNotRegistered
                  /\ conversations'[getConversationHash(a, b)] = <<>>
                  /\ conversations'[getConversationHash(b, a)] = <<>>
                  /\ userConversations' = userConversations
            /\ ~users[a].isRegistered =>
                  /\ ~lastCall'.ok
                  /\ lastCall'.err = NotRegistered
                  /\ UNCHANGED <<conversations, userConversations>>

C13_UnknownCounterpart == [][C13_Step]_vars

C13_Witness ==
    /\ lastCall.op = "sendDirectMessage"
    /\ lastCall.err = ReceiverNotRegistered
    /\ Len(getConversation(lastCall.sender, lastCall.sender)) = 1

(* C14: from the empty ledger, register(addr1,'alice') succeeds and makes
   'alice' unavailable; register(addr2,'alice') is then rejected as taken;
   register(addr2,'bob') succeeds; sendMessage 'hi' by addr1 gets id 0;
   sendMessage 'hello' by addr2 gets id 1; getGeneralChatMessages() is then
   [(addr1,'hi',0), (addr2,'hello',1)].  Each step is stated on the exact
   ledger the preceding steps leave (a rejected step leaves it as it was). *)
getGeneralChatMessages == generalChatMessages

Brief(msgs) ==
    [i \in 1..Len(msgs) |-> <<msgs[i].sender, msgs[i].content, msgs[i].messageId>>]

IsCall(call, op, sender, arg) ==
    /\ call.op = op
    /\ call.sender = sender
    /\ (IF op = "registerUser" THEN call.username ELSE call.content) = arg

AliceOnly(addr1) ==
    /\ registeredUsers = <<addr1>>
    /\ users[addr1].username = "alice"
    /\ generalChatMessages = <<>>

AliceAndBob(addr1, addr2) ==
    /\ registeredUsers = <<addr1, addr2>>
    /\ users[addr1].username = "alice"
    /\ users[addr2].username = "bob"

C14_Step ==
    \A addr1, addr2 \in Callers :
        addr1 # addr2 =>
            /\ (/\ registeredUsers = <<>> /\ generalChatMessages = <<>>
                /\ IsCall(lastCall', "registerUser", addr1, "alice")) =>
                   /\ lastCall'.ok
                   /\ usernameToAddress'["alice"] # ZeroAddress
            /\ (AliceOnly(addr1) /\ IsCall(lastCall', "registerUser", addr2, "alice")) =>
                   /\ ~lastCall'.ok
                   /\ lastCall'.err = Taken
            /\ (AliceOnly(addr1) /\ IsCall(lastCall', "registerUser", addr2, "bob")) =>
                   /\ lastCall'.ok
                   /\ registeredUsers' = <<addr1, addr2>>
            /\ (/\ AliceAndBob(addr1, addr2) /\ generalChatMessages = <<>>
                /\ IsCall(lastCall', "sendMessage", addr1, "hi")) =>
                   /\ lastCall'.ok
                   /\ lastCall'.events[1].messageId = 0
                   /\ Brief(generalChatMessages') = << <<addr1, "hi", 0>> >>
            /\ (/\ AliceAndBob(addr1, addr2)
                /\ Brief(generalChatMessages) = << <<addr1, "hi", 0>> >>
                /\ IsCall(lastCall', "sendMessage", addr2, "hello")) =>
                   /\ lastCall'.ok
                   /\ lastCall'.events[1].messageId = 1
                   /\ Brief(getGeneralChatMessages') =
                          << <<addr1, "hi", 0>>, <<addr2, "hello", 1>> >>

C14_Scenario == [][C14_Step]_vars

C14_Witness ==
    /\ AliceAndBob(1, 2)
    /\ IsCall(lastCall, "sendMessage", 2, "hello") /\ lastCall.ok
    /\ Brief(generalChatMessages) = << <<1, "hi", 0>>, <<2, "hello", 1>> >>

(* C15: the index entry of a claimed username u keeps pointing to its owner a
   in every step except a successful changeUsername by a itself, which
   frees it; no call by another address changes or removes it; a free name
   of valid length can be claimed by registerUser (unregistered caller) or
   changeUsername (registered caller). *)
C15_Step ==
    /\ \A u \in DOMAIN usernameToAddress :
          (usernameToAddress[u] # ZeroAddress
           /\ usernameToAddress'[u] # usernameToAddress[u]) =>
              /\ lastCall'.op = "changeUsername"
              /\ lastCall'.ok
              /\ lastCall'.sender = usernameToAddress[u]
              /\ usernameToAddress'[u] = ZeroAddress
    /\ (/\ lastCall'.op \in {"registerUser", "changeUsername"}
        /\ usernameToAddress[lastCall'.username] = ZeroAddress
        /\ Len(lastCall'.username) >= 1
        /\ Len(lastCall'.username) <= MaxUsernameLength
        /\ users[lastCall'.sender].isRegistered = (lastCall'.op = "changeUsername")) =>
              /\ lastCall'.ok
              /\ usernameToAddress'[lastCall'.username] = lastCall'.sender

C15_OwnerKeepsName == [][C15_Step]_vars

C15_Witness ==
    /\ lastCall.op = "changeUsername" /\ lastCall.ok
    /\ usernameToAddress[lastCall.events[1].oldUsername] = ZeroAddress
    /\ \E b \in Callers \ {lastCall.sender} :
          users[b].isRegistered /\ users[b].ipfsProfilePicHash = "ref2"

(* C16: write calls take effect one whole call at a time, so concurrent
   submissions resolve in some order: of two callers racing for the same
   free username with registerUser (or changeUsername), the first executed
   succeeds and leaves the other caller's profile untouched, and the other
   is rejected as username taken with no change. *)
C16_Step ==
    /\ (ledger' # ledger) => (lastCall'.op \in WriteOps /\ lastCall'.ok)
    /\ lastCall'.op \in {"registerUser", "changeUsername"} =>
          LET a == lastCall'.sender
              u == lastCall'.username
              eligible ==
                  /\ Len(u) >= 1 /\ Len(u) <= MaxUsernameLength
                  /\ users[a].isRegistered = (lastCall'.op = "changeUsername")
          IN  eligible =>
                  /\ lastCall'.ok <=> (usernameToAddress[u] = ZeroAddress)
                  /\ ~lastCall'.ok => (lastCall'.err = Taken /\ UNCHANGED ledger)
                  /\ lastCall'.ok =>
                        /\ usernameToAddress'[u] = a
                        /\ \A b \in Callers \ {a} :
                              /\ users'[b] = users[b]
                              /\ users'[b].username # u

C16_RaceHasOneWinner == [][C16_Step]_vars

C16_Witness ==
    /\ lastCall.op = "changeUsername"
    /\ lastCall.err = Taken
    /\ usernameToAddress[lastCall.username] \notin {ZeroAddress, lastCall.sender}
    /\ users[usernameToAddress[lastCall.username]].isRegistered
    /\ users[lastCall.sender].isRegistered

(* C17: registeredUsers holds each registered address exactly once and no
   other address, totalUsers is its length, and it grows only by appending
   the caller of a successful registerUser (registration order). *)
getAllRegisteredUsers == registeredUsers

C17_Listed ==
    /\ \A a \in Addresses :
          Count(getAllRegisteredUsers, a) = (IF users[a].isRegistered THEN 1 ELSE 0)
    /\ totalUsers = Len(getAllRegisteredUsers)

C17_AppendOnly ==
    /\ (lastCall'.op = "registerUser" /\ lastCall'.ok) =>
          registeredUsers' = Append(registeredUsers, lastCall'.sender)
    /\ registeredUsers' # registeredUsers =>
          (lastCall'.op = "registerUser" /\ lastCall'.ok)

(* C17: the list invariant and the append-only step property together. *)
C17_RegisteredList == [](C17_Listed) /\ [][C17_AppendOnly]_vars

C17_Witness ==
    /\ getAllRegisteredUsers = <<2, 1>>
    /\ lastCall.op = "registerUser" /\ lastCall.ok /\ lastCall.sender = 1

(* C18 as stated: a registered address stays registered, its
   registrationTimestamp never changes, and only its username and avatar
   reference change afterwards, only by its own calls. *)
C18_OriginalStep ==
    \A a \in Callers :
        users[a].isRegistered =>
            /\ users'[a].isRegistered
            /\ users'[a].registrationTimestamp = users[a].registrationTimestamp
            /\ users'[a].totalMessagesSent = users[a].totalMessagesSent
            /\ users'[a] # users[a] => (lastCall'.sender = a /\ lastCall'.ok)

C18_OnlyNameAndAvatar == [][C18_OriginalStep]_vars

(* C18 amended: a registered address stays registered and its
   registrationTimestamp never changes; afterwards its profile changes only
   by its own successful calls: username by changeUsername, avatar
   reference by updateProfilePicture, totalMessagesSent (by one) by
   sendMessage. *)
C18_Step ==
    \A a \in Callers :
        users[a].isRegistered =>
            /\ users'[a].isRegistered
            /\ users'[a].registrationTimestamp = users[a].registrationTimestamp
            /\ users'[a] # users[a] => (lastCall'.sender = a /\ lastCall'.ok)
            /\ users'[a].username # users[a].username =>
                  lastCall'.op = "changeUsername"
            /\ users'[a].ipfsProfilePicHash # users[a].ipfsProfilePicHash =>
                  lastCall'.op = "updateProfilePicture"
            /\ users'[a].totalMessagesSent # users[a].totalMessagesSent =>
                  /\ lastCall'.op = "sendMessage"
                  /\ users'[a].totalMessagesSent = users[a].totalMessagesSent + 1

C18_RegistrationPermanent == [][C18_Step]_vars

C18_Witness ==
    /\ lastCall.op = "sendMessage" /\ lastCall.ok
    /\ users[lastCall.sender].registrationTimestamp < now
    /\ users[lastCall.sender].username = "bob"
    /\ users[lastCall.sender].ipfsProfilePicHash = "ref2"

(* C19: a getAllPrices call returns the answers of the BTC/USD, ETH/USD and
   LINK/USD feeds in that order exactly as the feeds report them (negative,
   zero or stale alike), changes nothing but its own result, and fails
   exactly when at least one feed lookup fails. *)
C19_Step ==
    lastRead' # lastRead =>
        /\ UNCHANGED <<ledger, now, lastCall, admin, oracle>>
        /\ lastRead'.op = "getAllPrices"
        /\ lastRead'.ok <=> (\A f \in Feeds : ~oracle[f].reverts)
        /\ lastRead'.ok =>
              /\ lastRead'.btcPrice = oracle[priceFeedBTCUSD].answer
              /\ lastRead'.ethPrice = oracle[priceFeedETHUSD].answer
              /\ lastRead'.linkPrice = oracle[priceFeedLINKUSD].answer

C19_PricesAsReported == [][C19_Step]_vars

C19_Witness ==
    /\ lastRead.op = "getAllPrices" /\ lastRead.ok
    /\ lastRead.btcPrice = -1 /\ lastRead.ethPrice = 0 /\ lastRead.linkPrice = 7
    /\ oracle[priceFeedBTCUSD] = RoundData(-1, 0)
    /\ oracle[priceFeedETHUSD].answer = 0
    /\ oracle[priceFeedLINKUSD].answer = 7
    /\ now > 0
    /\ totalUsers > 0

(* C20 as stated: registerUser rejects a username of one or two
   characters. *)
C20_ShortUsernameRejected ==
    (lastCall.op = "registerUser" /\ Len(lastCall.username) \in {1, 2}) =>
        ~lastCall.ok

(* Posts (general and direct) made by address a at block time t *)
PostsAt(a, t) ==
    Cardinality({i \in 1..Len(generalChatMessages) :
                    /\ generalChatMessages[i].sender = a
                    /\ generalChatMessages[i].timestamp = t})
    + Cardinality({ki \in ConversationKeys \X (1..MaxPosts) :
                    /\ ki[2] <= Len(conversations[ki[1]])
                    /\ conversations[ki[1]][ki[2]].sender = a
                    /\ conversations[ki[1]][ki[2]].timestamp = t})

(* C21 as stated: posting is rate limited, so a single address cannot fill
   all the room for posts (MaxPosts of them) within one block time. *)
C21_RateLimited ==
    \A a \in Callers : PostsAt(a, now) < MaxPosts

IsPrefix(s, t) == Len(s) <= Len(t) /\ SubSeq(t, 1, Len(s)) = s

(* C23: a successful sendDirectMessage from a to b appends exactly one
   message (sender a, receiver b, isRead false) at the end of the {a,b}
   conversation and leaves every other conversation, the general channel,
   totalMessages and every totalMessagesSent unchanged; in every step each
   conversation only grows at its end. *)
C23_Step ==
    /\ \A k \in ConversationKeys : IsPrefix(conversations[k], conversations'[k])
    /\ (lastCall'.op = "sendDirectMessage" /\ lastCall'.ok) =>
          LET a == lastCall'.sender
              b == lastCall'.receiver
              k == getConversationHash(a, b)
          IN  /\ conversations'[k] =
                    Append(conversations[k],
                           [sender |-> a, receiver |-> b,
                            content |-> lastCall'.content,
                            timestamp |-> now, isRead |-> FALSE])
              /\ conversations'[getConversationHash(b, a)] = conversations'[k]
              /\ \A k2 \in ConversationKeys \ {k} :
                    conversations'[k2] = conversations[k2]
              /\ generalChatMessages' = generalChatMessages
              /\ totalMessages' = totalMessages
              /\ \A x \in Addresses :
                    users'[x].totalMessagesSent = users[x].totalMessagesSent

C23_ConversationAppendOnly == [][C23_Step]_vars

C23_Witness ==
    /\ lastCall.op = "sendDirectMessage" /\ lastCall.ok
    /\ lastCall.sender = 2 /\ lastCall.receiver = 1
    /\ Len(getConversation(1, 2)) = 2
    /\ getConversation(1, 2)[1].sender = 1
    /\ getConversation(2, 1)[2].sender = 2

(* C24: for a registered caller (and registered receiver) sendMessage and
   sendDirectMessage succeed exactly when the content length is in
   [1,1000], so lengths 1 and 1000 are accepted and 0 and 1001 rejected;
   every stored general or direct message has content length in [1,1000]
   and registered sender and receiver. *)
C24_Stored ==
    /\ \A i \in 1..Len(generalChatMessages) :
          /\ Len(generalChatMessages[i].content) \in 1..MaxMessageLength
          /\ users[generalChatMessages[i].sender].isRegistered
    /\ \A k \in ConversationKeys : \A i \in 1..Len(conversations[k]) :
          /\ Len(conversations[k][i].content) \in 1..MaxMessageLength
          /\ users[conversations[k][i].sender].isRegistered
          /\ users[conversations[k][i].receiver].isRegistered

C24_Step ==
    (/\ lastCall'.op \in {"sendMessage", "sendDirectMessage"}
     /\ users[lastCall'.sender].isRegistered
     /\ lastCall'.op = "sendDirectMessage" => users[lastCall'.receiver].isRegistered) =>
        /\ lastCall'.ok <=> Len(lastCall'.content) \in 1..MaxMessageLength
        /\ Len(lastCall'.content) = 0 => lastCall'.err = "Message cannot be empty"
        /\ Len(lastCall'.content) > MaxMessageLength =>
              lastCall'.err = "Message too long (max 1000 characters)"

C24_ContentBounds == [](C24_Stored) /\ [][C24_Step]_vars

C24_Witness ==
    /\ lastCall.op = "sendDirectMessage" /\ ~lastCall.ok
    /\ Len(lastCall.content) = MaxMessageLength + 1
    /\ users[lastCall.sender].isRegistered
    /\ users[lastCall.receiver].isRegistered
    /\ Len(generalChatMessages) = 1
    /\ Len(generalChatMessages[1].content) = MaxMessageLength
    /\ Len(getConversation(1, 2)) = 1
    /\ Len(getConversation(1, 2)[1].content) = 1

(* C25: in every reachable state b is listed in userConversations[a] iff a
   is listed in userConversations[b] iff getConversation(a, b) is
   non-empty, and isInConversation is symmetric. *)
C25_IndexAgrees ==
    \A a, b \in Addresses :
        /\ (b \in Range(getUserConversations(a))) <=> (a \in Range(getUserConversations(b)))
        /\ (b \in Range(getUserConversations(a))) <=> (Len(getConversation(a, b)) > 0)
        /\ isInConversation(a, b) <=> isInConversation(b, a)

C25_Witness ==
    /\ isInConversation(1, 2) /\ isInConversation(2, 1)
    /\ Len(getConversation(2, 1)) = 1
    /\ getConversation(2, 1)[1].sender = 2
    /\ getUserConversations(2) = <<2, 2, 1>>

(* C26: transferOwnership and updatePriceFeeds succeed only for the current
   owner (and a non-zero new owner); a call by any other address, a former
   owner included, is rejected and changes nothing; the owner is never
   address(0); neither function changes user, message or conversation
   state; owner and feed addresses change by no other call. *)
C26_OwnerSet == owner \in Callers

C26_Step ==
    /\ lastCall'.op \in {"transferOwnership", "updatePriceFeeds"} =>
          /\ UNCHANGED ledger
          /\ lastCall'.ok <=>
                /\ lastCall'.sender = owner
                /\ lastCall'.op = "transferOwnership" => lastCall'.newOwner # ZeroAddress
          /\ lastCall'.sender # owner => (lastCall'.err = NotOwner /\ UNCHANGED admin)
          /\ ~lastCall'.ok => UNCHANGED admin
          /\ (lastCall'.ok /\ lastCall'.op = "transferOwnership") =>
                /\ owner' = lastCall'.newOwner
                /\ UNCHANGED <<priceFeedBTCUSD, priceFeedETHUSD, priceFeedLINKUSD>>
          /\ (lastCall'.ok /\ lastCall'.op = "updatePriceFeeds") =>
                /\ <<priceFeedBTCUSD', priceFeedETHUSD', priceFeedLINKUSD'>> = lastCall'.feeds
                /\ owner' = owner
    /\ admin' # admin =>
          (lastCall'.op \in {"transferOwnership", "updatePriceFeeds"} /\ lastCall'.ok)

C26_OnlyOwner == [](C26_OwnerSet) /\ [][C26_Step]_vars

C26_Witness ==
    /\ lastCall.op = "updatePriceFeeds" /\ ~lastCall.ok
    /\ lastCall.sender = Deployer
    /\ owner = 2
    /\ priceFeedBTCUSD = FeedETH
    /\ totalMessages > 0

(* C22 as stated: for a username of at least 3 characters the availability
   check of the registration page reports available exactly when the
   ledger's isUsernameAvailable is true at the time of the check. *)
C22_Step ==
    (availability' # availability /\ Len(availability'.username) >= 3) =>
        (availability'.isAvailable <=> isUsernameAvailable(availability'.username))

C22_CheckMirrorsLedger == [][C22_Step]_vars

(* C27: on /chat and /profile the wrapped page is rendered only while the
   wallet is connected and the registration query reports registered;
   otherwise ProtectedRoute shows the loading view or redirects, to "/"
   when not connected and to "/register" when connected but not
   registered; on /register a connected, registered user is never shown the
   page and is redirected to /chat once the checks have completed. *)
C27_Guarded ==
    /\ \A p \in {"/chat", "/profile"} :
          /\ App(p) = Children => (isConnected /\ isRegistered)
          /\ ~(isConnected /\ isRegistered) => App(p).view \in {"loading", "Navigate"}
          /\ App(p).view = "Navigate" =>
                /\ ~isConnected => App(p).to = "/"
                /\ (isConnected /\ ~isRegistered) => App(p).to = "/register"
                /\ ~(isConnected /\ isRegistered)
    /\ (isConnected /\ isRegistered) =>
          /\ App("/register") # Children
          /\ route.hasCheckedRequirements => App("/register") = Navigate("/chat")

C27_Witness ==
    /\ route.pathname = "/profile"
    /\ App("/profile") = Children
    /\ route.navigation = "user"
    /\ route.registration = "idle"
    /\ isUserRegistered(WalletAddress)

(* C28 as stated: once the registration is confirmed RegisterPage
   eventually navigates to /chat, whether the refetch succeeds or fails,
   and ProtectedRoute does not then send the user back from /chat to
   /register. *)
SentBackToRegister ==
    /\ route.registration = "navigated"
    /\ route.navigation = "ProtectedRoute"
    /\ route.pathname = "/register"

C28_EndsOnChat ==
    /\ (route.registration = "confirmed") ~> (route.registration = "navigated")
    /\ [](~SentBackToRegister)

(* C29 as stated: while ChatPage stays mounted the automated price update
   is posted at most once per hour, apart from one initial post made by the
   10 second timer; a change of the polled prices causes no further post. *)
PricePosted ==
    /\ chat.mounted /\ chat'.mounted
    /\ Len(chat'.writes) = Len(chat.writes) + 1
    /\ chat'.writes[Len(chat'.writes)].by # "handleSendMessage"

C29_HourlyPricePost ==
    [][PricePosted =>
          IF chat'.writes[Len(chat'.writes)].by = "initialTimeout"
          THEN \A i \in 1..Len(chat.writes) : chat.writes[i].by # "initialTimeout"
          ELSE chat.sinceHourly >= PriceInterval]_vars

(* C30 as stated: ChatPage submits no second sendMessage write while an
   earlier one is pending: handleSendMessage does nothing between the
   submission of a message and the completion of that write. *)
C30_OneWriteAtATime ==
    [][(/\ chat.mounted /\ chat'.mounted
        /\ Len(chat'.writes) = Len(chat.writes) + 1
        /\ chat'.writes[Len(chat'.writes)].by = "handleSendMessage")
          => Pending = 0]_vars

====
